---- MODULE Spec2Model ----
(***************************************************************************)
(* SOCKS5 proxy of src/proxy/socks5_proxy.py: the listener's accept loop,  *)
(* one ProxyThread per accepted connection (run, handle_greeting,          *)
(* handle_request, send_reply, relay_data) and the two database logging    *)
(* functions db_log_start / db_log_end.                                    *)
(*                                                                         *)
(* Sockets are modelled by what the proxy can observe of them: a recv      *)
(* delivers data, an orderly end of stream, or raises; a sendall writes    *)
(* the whole buffer or raises.  A client socket on which an operation has  *)
(* raised stays broken: every later sendall on it raises too.  Relayed     *)
(* data is counted in bytes.                                               *)
(*                                                                         *)
(* Spec      one run of the proxy with every outcome of every socket and   *)
(*           database operation                                            *)
(* SpecTwo   the same with two concurrent sessions                         *)
(* SpecWire  the handshake on the bytes of the wire, split across reads    *)
(* SpecFlow  the relay on the bytes in the socket buffers, with peers      *)
(***************************************************************************)
EXTENDS Integers, Sequences, FiniteSets, TLC

\* ---------------------------------------------------------------- bounds
\* connections that arrive at the listening socket
Clients == 1
\* ProxyThread objects that can exist at a time
Threads == 2
\* largest number of bytes one recv delivers during relay
MaxChunk == 2
\* total number of bytes relayed by one session, both directions together
MaxBytes == 3
\* largest NMETHODS a client puts in its greeting
MaxMethods == 2
\* longest domain name a client asks for
MaxName == 2
\* bytes a socket buffer holds before a write to it blocks
SockBuf == 2
\* bytes each peer has to send during relay
StreamLen == 3

\* ------------------------------------------------------ program constants
BUFFER_SIZE == 4096
SOCKS_VERSION == 5

Sessions == 1..Threads
\* the values uuid.uuid4() is drawn from
Uuids == 1..Threads

Min(a, b) == IF a < b THEN a ELSE b

\* what a blocking recv on a stream socket can do
RecvOutcomes == {"data", "eof", "reset", "other"}
\* what a sendall can do: write everything, or raise ConnectionResetError,
\* or raise another exception (BrokenPipeError, TimeoutError, OSError ...)
SendOutcomes == {"ok", "reset", "other"}
\* what a recv of a fixed-size handshake field can do: raise, deliver fewer
\* bytes than asked for (end of stream included), or deliver the field
FieldReads == {"reset", "short", "ok"}
\* what the database does with one logging call
SinkOutcomes == {"ok", "unreachable", "statement_failed"}

Versions == {4, 5}
Commands == {1, 2}
AddressTypes == {1, 3, 4}

VARIABLES
  backlog,         \* connections waiting in the listen queue
  pc,              \* position of each ProxyThread in run()
  session_id,      \* self.session_id, 0 before the thread exists
  client_socket,   \* "none", "open", "broken" (an operation raised), "closed"
  dest_socket,     \* "none", "created", "connected", "closed"
  ev,              \* history of what the session did, in order
  readable,        \* sockets select() returned that the for loop has not visited
  bytes_sent,      \* relay_data's local bytes_sent
  bytes_received,  \* relay_data's local bytes_received
  toDest,          \* bytes the destination socket accepted from sendall
  toClient,        \* relayed bytes the client socket accepted from sendall
  cause,           \* how relay_data left its loop: "none", "eof", "reset", "other"
  endRec,          \* arguments of each db_log_end call, in order
  db,              \* proxy_logs: the status column of the row of each session_id,
                   \* "absent" where there is no row
  wire,            \* handshake bytes the client sent that no recv has delivered yet
  client_sent,     \* the greeting and the request the client put on the wire
  dest_endpoint,   \* <<dest_addr, dest_port>> handle_request connects to, <<>> before
  net              \* the socket buffers between the proxy and its two peers

vars == <<backlog, pc, session_id, client_socket, dest_socket, ev, readable,
          bytes_sent, bytes_received, toDest, toClient, cause, endRec, db,
          wire, client_sent, dest_endpoint, net>>

\* the byte-level view of the handshake and of the socket buffers; the
\* actions that draw what a recv delivers leave it alone
aux == <<wire, client_sent, dest_endpoint, net>>

\* no handshake bytes tracked: the session's reads are drawn, not parsed
NoInput == [greeting |-> [ver |-> 0, methods |-> <<>>],
            request |-> [ver |-> 0, cmd |-> 0, atyp |-> 0, addr |-> <<>>, port |-> <<>>]]
\* The sockets of a session that moves no bytes.  c2p, d2p: bytes a peer
\* sent that the proxy has not read; p2d, p2c: bytes the proxy wrote that
\* the peer has not read; data: the chunk relay_data holds; unsent: what
\* its sendall has not handed over yet; read_client, read_dest: all that
\* relay_data's recv returned; dest_got, client_got: all that the peer
\* took out of its buffer; client_todo, dest_todo: what the peer still has
\* to send; client_shut, dest_shut: the peer closed its sending side;
\* dest_kind: the kind of program the destination is.
NoNet == [c2p |-> <<>>, p2d |-> <<>>, d2p |-> <<>>, p2c |-> <<>>,
          data |-> <<>>, unsent |-> <<>>,
          read_client |-> <<>>, read_dest |-> <<>>,
          dest_got |-> <<>>, client_got |-> <<>>,
          client_todo |-> <<>>, dest_todo |-> <<>>,
          client_shut |-> FALSE, dest_shut |-> FALSE, dest_kind |-> "duplex"]

Has(seq, x) == \E i \in 1..Len(seq) : seq[i] = x
Count(seq, x) == Cardinality({i \in 1..Len(seq) : seq[i] = x})
\* position of the first x in seq, 0 when there is none
Pos(seq, x) == IF Has(seq, x) THEN CHOOSE i \in 1..Len(seq) :
                    seq[i] = x /\ \A j \in 1..(i-1) : seq[j] # x
               ELSE 0

Init ==
  /\ backlog = Clients
  /\ pc = [s \in Sessions |-> "idle"]
  /\ session_id = [s \in Sessions |-> 0]
  /\ client_socket = [s \in Sessions |-> "none"]
  /\ dest_socket = [s \in Sessions |-> "none"]
  /\ ev = [s \in Sessions |-> <<>>]
  /\ readable = [s \in Sessions |-> <<>>]
  /\ bytes_sent = [s \in Sessions |-> 0]
  /\ bytes_received = [s \in Sessions |-> 0]
  /\ toDest = [s \in Sessions |-> 0]
  /\ toClient = [s \in Sessions |-> 0]
  /\ cause = [s \in Sessions |-> "none"]
  /\ endRec = [s \in Sessions |-> <<>>]
  /\ db = [u \in Uuids |-> "absent"]
  /\ wire = [s \in Sessions |-> <<>>]
  /\ client_sent = [s \in Sessions |-> NoInput]
  /\ dest_endpoint = [s \in Sessions |-> <<>>]
  /\ net = [s \in Sessions |-> NoNet]

\* uuid.uuid4(): a token no other session holds
\* an identifier source that hands out the same value every time
uuid4_constant(used) == 1

uuid4(used) == CHOOSE u \in Uuids : u \notin used

\* main's accept loop: accept one connection, build its ProxyThread, start it
accept(s) ==
  /\ backlog > 0
  /\ pc[s] = "idle"
  /\ \A t \in Sessions : t < s => pc[t] # "idle"
  /\ backlog' = backlog - 1
  /\ client_socket' = [client_socket EXCEPT ![s] = "open"]
  /\ session_id' = [session_id EXCEPT ![s] =
                      uuid4({session_id[t] : t \in Sessions})]
  /\ pc' = [pc EXCEPT ![s] = "greeting"]
  /\ UNCHANGED aux
  /\ UNCHANGED <<dest_socket, ev, readable, bytes_sent, bytes_received,
                 toDest, toClient, cause, endRec, db>>

\* ------------------------------------------------------------ handshake
\* handle_greeting, lines 125-139, as a function of what the socket does:
\*   g   what recv(2) does          ver, n   the two bytes it delivered
\*   m   what recv(nmethods) does   w        whether sendall(response) succeeds
\* The result says how the method returns ("true", "false", "raise"), what
\* it wrote and whether the client socket is left broken.
greeting_result(g, ver, n, m, w) ==
  IF g = "reset" THEN [out |-> "raise", evs |-> <<>>, broken |-> TRUE]
  ELSE IF g = "short" THEN [out |-> "raise", evs |-> <<>>, broken |-> FALSE]
  ELSE IF ver # SOCKS_VERSION THEN [out |-> "false", evs |-> <<>>, broken |-> FALSE]
  ELSE IF m = "reset" THEN [out |-> "raise", evs |-> <<>>, broken |-> TRUE]
  ELSE IF ~w THEN [out |-> "raise", evs |-> <<>>, broken |-> TRUE]
  ELSE [out |-> "true", evs |-> <<"method_reply">>, broken |-> FALSE]

\* run, lines 96-99: the greeting step and where run goes from it
handle_greeting(s) ==
  /\ pc[s] = "greeting"
  /\ \E g \in FieldReads, ver \in Versions, n \in 0..MaxMethods,
        m \in FieldReads, w \in BOOLEAN :
       LET r == greeting_result(g, ver, n, m, w) IN
         /\ ev' = [ev EXCEPT ![s] = @ \o r.evs]
         /\ client_socket' = [client_socket EXCEPT ![s] =
                                IF r.broken THEN "broken" ELSE @]
         /\ pc' = [pc EXCEPT ![s] = CASE r.out = "true" -> "request"
                                      [] r.out = "false" -> "finally"
                                      [] OTHER -> "except"]
  /\ UNCHANGED aux
  /\ UNCHANGED <<backlog, session_id, dest_socket, readable, bytes_sent,
                 bytes_received, toDest, toClient, cause, endRec, db>>

\* send_reply packing the general-failure code whatever rep_code it is given
send_reply_general_failure(rep_code) == "reply1"

\* send_reply, lines 181-186: the event a written reply leaves
send_reply(rep_code) ==
  CASE rep_code = 0 -> "reply0"
    [] rep_code = 1 -> "reply1"
    [] rep_code = 5 -> "reply5"
    [] OTHER -> "reply8"

\* The try block of handle_request, lines 145-174:
\*   h     what recv(4) of the header does     ver, cmd, atyp  its bytes
\*   a     what the address and port reads do  conn  whether connect succeeds
\*   w     whether the sendall of the reply succeeds
\* out is "none" (return None, None, None), "socket" (return dest_socket)
\* or "raise" (an exception reaches the except clause); dest is the state
\* the destination socket is left in; a sendall that raised leaves the
\* event "reply_failed".
request_try(h, ver, cmd, atyp, a, conn, w) ==
  IF h = "reset"
    THEN [out |-> "raise", evs |-> <<>>, dest |-> "none", broken |-> TRUE]
  ELSE IF h = "short"
    THEN [out |-> "raise", evs |-> <<>>, dest |-> "none", broken |-> FALSE]
  ELSE IF ver # SOCKS_VERSION \/ cmd # 1
    THEN IF w THEN [out |-> "none", evs |-> <<send_reply(5)>>,
                    dest |-> "none", broken |-> FALSE]
              ELSE [out |-> "raise", evs |-> <<"reply_failed">>,
                    dest |-> "none", broken |-> TRUE]
  ELSE IF atyp \notin {1, 3}
    THEN IF w THEN [out |-> "none", evs |-> <<send_reply(8)>>,
                    dest |-> "none", broken |-> FALSE]
              ELSE [out |-> "raise", evs |-> <<"reply_failed">>,
                    dest |-> "none", broken |-> TRUE]
  ELSE IF a = "reset"
    THEN [out |-> "raise", evs |-> <<>>, dest |-> "none", broken |-> TRUE]
  ELSE IF a = "short"
    THEN [out |-> "raise", evs |-> <<>>, dest |-> "none", broken |-> FALSE]
  ELSE IF ~conn
    THEN [out |-> "raise", evs |-> <<"connect_failed">>,
          dest |-> "created", broken |-> FALSE]
  ELSE IF w
    THEN [out |-> "socket", evs |-> <<"connect_ok", send_reply(0)>>,
          dest |-> "connected", broken |-> FALSE]
  ELSE [out |-> "raise", evs |-> <<"connect_ok", "reply_failed">>,
        dest |-> "connected", broken |-> TRUE]

\* the except clause of handle_request handing out a socket whatever happened
request_except_returns_socket(t, w2) == [t EXCEPT !.out = "socket"]

\* the except clause of handle_request answering nothing
request_except_silent(t, w2) ==
  IF t.out # "raise" THEN t ELSE [t EXCEPT !.out = "none"]

\* The except clause of handle_request, lines 176-179, entered with the
\* result t of the try block; w2 says whether the sendall of send_reply(1)
\* succeeds, which it cannot on a broken socket.  out "raise" is the
\* exception of send_reply(1) leaving handle_request.
request_except(t, w2) ==
  IF t.out # "raise" THEN t
  ELSE IF t.broken \/ ~w2
    THEN [out |-> "raise", evs |-> t.evs \o <<"reply_failed">>,
          dest |-> t.dest, broken |-> TRUE]
  ELSE [out |-> "none", evs |-> t.evs \o <<send_reply(1)>>,
        dest |-> t.dest, broken |-> FALSE]

\* run, lines 102-104: the request step and where run goes from it
handle_request(s) ==
  /\ pc[s] = "request"
  /\ \E h \in FieldReads, ver \in Versions, cmd \in Commands,
        atyp \in AddressTypes, a \in FieldReads, conn \in BOOLEAN,
        w \in BOOLEAN, w2 \in BOOLEAN :
       LET r == request_except(request_try(h, ver, cmd, atyp, a, conn, w), w2) IN
         /\ ev' = [ev EXCEPT ![s] = @ \o r.evs]
         /\ dest_socket' = [dest_socket EXCEPT ![s] = r.dest]
         /\ client_socket' = [client_socket EXCEPT ![s] =
                                IF r.broken THEN "broken" ELSE @]
         /\ pc' = [pc EXCEPT ![s] = CASE r.out = "socket" -> "log_start"
                                      [] r.out = "none" -> "finally"
                                      [] OTHER -> "except"]
  /\ UNCHANGED aux
  /\ UNCHANGED <<backlog, session_id, readable, bytes_sent, bytes_received,
                 toDest, toClient, cause, endRec, db>>

\* ------------------------------------------------------------- log sink
\* get_db_connection, lines 21-34: a connection, or None when psycopg2
\* raises OperationalError
get_db_connection(o) == o # "unreachable"

\* db_log_start, lines 36-51: the row after the call.  The INSERT takes
\* effect only with a connection and a statement that succeeds; every
\* failure is logged and swallowed.
db_log_start(row, o) ==
  IF get_db_connection(o) /\ o = "ok" THEN "active" ELSE row

\* db_log_end, lines 53-80: the row after the call.  The UPDATE changes
\* the row of this session_id, if there is one.
db_log_end(row, o, status) ==
  IF get_db_connection(o) /\ o = "ok" /\ row # "absent" THEN status ELSE row

\* a logging call without its try/except: a database failure reaches run
sink_raises_on_failure(o) == o # "ok"

\* whether the logging call raises into run: it never does, lines 32-34,
\* 48-49 and 77-78 catch what the database raises
sink_raises(o) == FALSE

\* run going from handle_request to relay_data without logging the start
log_start_skipped(s) ==
  /\ pc[s] = "log_start"
  /\ pc' = [pc EXCEPT ![s] = "select"]
  /\ UNCHANGED aux
  /\ UNCHANGED <<backlog, session_id, client_socket, dest_socket, ev, readable,
                 bytes_sent, bytes_received, toDest, toClient, cause, endRec, db>>

\* run, line 107: log the start of the connection, then go on to relay_data
log_start(s) ==
  /\ pc[s] = "log_start"
  /\ \E o \in SinkOutcomes :
       /\ db' = [db EXCEPT ![session_id[s]] = db_log_start(@, o)]
       /\ pc' = [pc EXCEPT ![s] = IF sink_raises(o) THEN "except" ELSE "select"]
  /\ ev' = [ev EXCEPT ![s] = Append(@, "start")]
  /\ UNCHANGED aux
  /\ UNCHANGED <<backlog, session_id, client_socket, dest_socket, readable,
                 bytes_sent, bytes_received, toDest, toClient, cause, endRec>>

\* ---------------------------------------------------------------- relay
\* select.select([client_socket, dest_socket], [], []), line 196: the
\* sockets that are readable, in the order they were passed
ReadableLists == {<<"client">>, <<"dest">>, <<"client", "dest">>}

relay_select(s) ==
  /\ pc[s] = "select"
  /\ \E r \in ReadableLists : readable' = [readable EXCEPT ![s] = r]
  /\ pc' = [pc EXCEPT ![s] = "recv"]
  /\ UNCHANGED aux
  /\ UNCHANGED <<backlog, session_id, client_socket, dest_socket, ev,
                 bytes_sent, bytes_received, toDest, toClient, cause, endRec, db>>

\* the two counters exchanged: bytes from the client counted as received
count_forward_swapped(sock, n, sent, received) ==
  IF sock = "client" THEN [sent |-> sent, received |-> received + n]
                     ELSE [sent |-> sent + n, received |-> received]

\* lines 203-208: the counters after n bytes read from sock were written
\* to the other socket
count_forward(sock, n, sent, received) ==
  IF sock = "client" THEN [sent |-> sent + n, received |-> received]
                     ELSE [sent |-> sent, received |-> received + n]

\* lines 199-208, a chunk that is read and written: sendall hands the n
\* bytes to the peer socket, the counter of that direction grows by n, and
\* the for loop goes on to the next readable socket, or back to select
relay_forward(s, sock, n) ==
  LET c == count_forward(sock, n, bytes_sent[s], bytes_received[s]) IN
    /\ toDest' = [toDest EXCEPT ![s] = IF sock = "client" THEN @ + n ELSE @]
    /\ toClient' = [toClient EXCEPT ![s] = IF sock = "client" THEN @ ELSE @ + n]
    /\ bytes_sent' = [bytes_sent EXCEPT ![s] = c.sent]
    /\ bytes_received' = [bytes_received EXCEPT ![s] = c.received]
    /\ readable' = [readable EXCEPT ![s] = Tail(@)]
    /\ pc' = [pc EXCEPT ![s] = IF Tail(readable[s]) = <<>> THEN "select" ELSE "recv"]
    /\ UNCHANGED <<client_socket, dest_socket, ev, cause>>

\* an empty read treated as a failure and raised into run
relay_outcome_eof_raises(k) == IF k \in {"other", "eof"} THEN "except" ELSE "log_end"

\* where relay_data hands control to run when it leaves its loop for
\* reason k: the return of line 201 and the swallowed ConnectionResetError
\* of lines 209-210 return the counters, lines 211-213 re-raise
relay_outcome(k) == IF k = "other" THEN "except" ELSE "log_end"

\* the destination closed on the normal exits only, not on a connection reset
relay_finally_skips_on_reset(k) == IF k = "reset" THEN <<>> ELSE <<"close_dest">>

\* the finally clause, lines 214-215: what relay_data closes on its way
\* out, as the events it leaves
relay_finally(k) == <<"close_dest">>

\* lines 200-201 and 209-217: relay_data leaves its loop for reason k
\* ("eof", "reset", "other"); failed is the socket whose operation raised,
\* "none" for an orderly end of stream
relay_exit(s, k, failed) ==
  /\ cause' = [cause EXCEPT ![s] = k]
  /\ ev' = [ev EXCEPT ![s] = @ \o relay_finally(k)]
  /\ dest_socket' = [dest_socket EXCEPT ![s] =
                       IF Has(relay_finally(k), "close_dest") THEN "closed" ELSE @]
  /\ client_socket' = [client_socket EXCEPT ![s] =
                         IF Has(relay_finally(k), "close_client") THEN "closed"
                         ELSE IF failed = "client" THEN "broken" ELSE @]
  /\ readable' = [readable EXCEPT ![s] = <<>>]
  /\ pc' = [pc EXCEPT ![s] = relay_outcome(k)]
  /\ UNCHANGED <<bytes_sent, bytes_received, toDest, toClient>>

\* the chunk written back to the socket it was read from
Peer_same(sock) == sock

\* lines 203-207: the socket a chunk read from sock is written to
Peer(sock) == IF sock = "client" THEN "dest" ELSE "client"

\* lines 198-208: one turn of the for loop over the readable sockets
relay_recv(s) ==
  /\ pc[s] = "recv"
  /\ readable[s] # <<>>
  /\ LET sock == Head(readable[s]) IN
       \E r \in RecvOutcomes :
         \/ /\ r = "data"
            /\ \E n \in 1..Min(MaxChunk, BUFFER_SIZE), w \in SendOutcomes :
                 /\ toDest[s] + toClient[s] + n <= MaxBytes
                 /\ IF w = "ok" THEN relay_forward(s, sock, n)
                                ELSE relay_exit(s, w, Peer(sock))
         \/ /\ r = "eof"
            /\ relay_exit(s, "eof", "none")
         \/ /\ r \in {"reset", "other"}
            /\ relay_exit(s, r, sock)
  /\ UNCHANGED aux
  /\ UNCHANGED <<backlog, session_id, endRec, db>>

\* ------------------------------------------------------- end of the run
\* run, lines 113-114: relay_data returned its counters
log_end(s) ==
  /\ pc[s] = "log_end"
  /\ \E o \in SinkOutcomes :
       /\ db' = [db EXCEPT ![session_id[s]] = db_log_end(@, o, "closed")]
       /\ pc' = [pc EXCEPT ![s] = IF sink_raises(o) THEN "except" ELSE "finally"]
  /\ endRec' = [endRec EXCEPT ![s] = Append(@,
                  [sent |-> bytes_sent[s], received |-> bytes_received[s],
                   status |-> "closed", message |-> FALSE])]
  /\ ev' = [ev EXCEPT ![s] = Append(@, "end")]
  /\ UNCHANGED aux
  /\ UNCHANGED <<backlog, session_id, client_socket, dest_socket, readable,
                 bytes_sent, bytes_received, toDest, toClient, cause>>

\* run, lines 116-118: an exception reached run's except clause
run_except(s) ==
  /\ pc[s] = "except"
  /\ \E o \in SinkOutcomes :
       db' = [db EXCEPT ![session_id[s]] = db_log_end(@, o, "error")]
  /\ endRec' = [endRec EXCEPT ![s] = Append(@,
                  [sent |-> 0, received |-> 0,
                   status |-> "error", message |-> TRUE])]
  /\ ev' = [ev EXCEPT ![s] = Append(@, "end")]
  /\ pc' = [pc EXCEPT ![s] = "finally"]
  /\ UNCHANGED aux
  /\ UNCHANGED <<backlog, session_id, client_socket, dest_socket, readable,
                 bytes_sent, bytes_received, toDest, toClient, cause>>

\* run, lines 119-120: the finally clause closes the client socket
run_finally(s) ==
  /\ pc[s] = "finally"
  /\ client_socket' = [client_socket EXCEPT ![s] = "closed"]
  /\ ev' = [ev EXCEPT ![s] = Append(@, "close_client")]
  /\ pc' = [pc EXCEPT ![s] = "done"]
  /\ UNCHANGED aux
  /\ UNCHANGED <<backlog, session_id, dest_socket, readable, bytes_sent,
                 bytes_received, toDest, toClient, cause, endRec, db>>

Next ==
  \E s \in Sessions :
    \/ accept(s)
    \/ handle_greeting(s)
    \/ handle_request(s)
    \/ log_start(s)
    \/ relay_select(s)
    \/ relay_recv(s)
    \/ log_end(s)
    \/ run_except(s)
    \/ run_finally(s)

Spec == Init /\ [][Next]_vars

\* ---------------------------------------------- the handshake, byte by byte
\* The same two handlers with the client's bytes on the wire and recv as
\* the socket provides it: it returns at most bufsize bytes, and as few as
\* one when the rest has not arrived yet.  The client stays connected and
\* every write succeeds; a recv on an exhausted wire returns b''.
MethodIds == {0, 2}
MethodLists == UNION {[1..k -> MethodIds] : k \in 0..MaxMethods}
ClientGreetings == {[ver |-> v, methods |-> m] : v \in Versions, m \in MethodLists}
\* DST.ADDR as it is sent: 4 bytes, or a length byte and a name, or 16 bytes
Ipv4Addr == <<10, 0, 0, 1>>
DomainAddrs == {<<k>> \o [i \in 1..k |-> 97] : k \in 1..MaxName}
Ipv6Addr == [i \in 1..16 |-> 0]
AddrsOf(atyp) == CASE atyp = 1 -> {Ipv4Addr}
                   [] atyp = 3 -> DomainAddrs
                   [] OTHER -> {Ipv6Addr}
PortBytes == <<0, 80>>
ClientRequests ==
  UNION {{[ver |-> v, cmd |-> c, atyp |-> a, addr |-> d, port |-> PortBytes] :
            d \in AddrsOf(a)} : v \in Versions, c \in Commands, a \in AddressTypes}

\* the bytes of the two messages, spec section 6
encode_greeting(g) == <<g.ver, Len(g.methods)>> \o g.methods
encode_request(r) == <<r.ver, r.cmd, 0, r.atyp>> \o r.addr \o r.port

\* how many bytes have arrived when a recv returns
Arrivals == 1..4

Drop(buf, n) == SubSeq(buf, n + 1, Len(buf))
\* socket.recv(bufsize) on a stream of which `arrived` bytes are there
recv(buf, bufsize, arrived) ==
  SubSeq(buf, 1, Min(Min(bufsize, Len(buf)), arrived))

\* struct.unpack('!H', port_bytes)[0], line 166
unpack_port(b) == b[1] * 256 + b[2]
\* the destination the client named: the address without its length byte
\* (socket.inet_ntoa and decode keep the bytes apart), and the port
EndpointOf(r) == <<IF r.atyp = 3 THEN Tail(r.addr) ELSE r.addr, unpack_port(r.port)>>

\* handle_greeting with the version check left out
greeting_bytes_unchecked(buf, j1, j2) ==
  LET greeting == recv(buf, 2, j1)
      rest == Drop(buf, Len(greeting)) IN
    IF Len(greeting) # 2
      THEN [out |-> "raise", evs |-> <<>>, rest |-> rest]
    ELSE [out |-> "true", evs |-> <<"method_reply">>,
          rest |-> Drop(rest, Len(recv(rest, greeting[2], j2)))]

\* handle_greeting, lines 125-139, on the bytes buf: j1 and j2 say how much
\* has arrived at recv(2) and at recv(nmethods).  struct.unpack("!BB")
\* raises unless it is given exactly 2 bytes; what recv(nmethods) returns
\* is dropped unseen.
greeting_bytes(buf, j1, j2) ==
  LET greeting == recv(buf, 2, j1)
      rest == Drop(buf, Len(greeting)) IN
    IF Len(greeting) # 2
      THEN [out |-> "raise", evs |-> <<>>, rest |-> rest]
    ELSE IF greeting[1] # SOCKS_VERSION
      THEN [out |-> "false", evs |-> <<>>, rest |-> rest]
    ELSE [out |-> "true", evs |-> <<"method_reply">>,
          rest |-> Drop(rest, Len(recv(rest, greeting[2], j2)))]

\* run, lines 96-99, on the bytes of the wire
handle_greeting_bytes(s) ==
  /\ pc[s] = "greeting"
  /\ \E j1 \in Arrivals, j2 \in Arrivals :
       LET r == greeting_bytes(wire[s], j1, j2) IN
         /\ wire' = [wire EXCEPT ![s] = r.rest]
         /\ ev' = [ev EXCEPT ![s] = @ \o r.evs]
         /\ pc' = [pc EXCEPT ![s] = CASE r.out = "true" -> "request"
                                      [] r.out = "false" -> "finally"
                                      [] OTHER -> "except"]
  /\ UNCHANGED <<backlog, session_id, client_socket, dest_socket, readable,
                 bytes_sent, bytes_received, toDest, toClient, cause, endRec, db,
                 client_sent, dest_endpoint, net>>

\* The address and port reads and the connect of handle_request, lines
\* 153-174, on the bytes buf that follow the header: ja, jb, jp say how
\* much has arrived at the reads of the address (length), of the name and
\* of the port.  inet_ntoa raises unless it is given 4 bytes, recv(1)[0]
\* raises on b'', struct.unpack('!H') raises unless it is given 2 bytes; a
\* name shorter than addr_len is used as it came.
request_connect(buf, atyp, ja, jb, jp, conn) ==
  LET first == recv(buf, IF atyp = 1 THEN 4 ELSE 1, ja)
      rest1 == Drop(buf, Len(first))
      name == IF atyp = 1 \/ first = <<>> THEN <<>> ELSE recv(rest1, first[1], jb)
      rest2 == Drop(rest1, Len(name))
      dest_addr == IF atyp = 1 THEN first ELSE name
      port_bytes == recv(rest2, 2, jp)
      rest3 == Drop(rest2, Len(port_bytes)) IN
    IF (atyp = 1 /\ Len(first) # 4) \/ (atyp = 3 /\ first = <<>>)
      THEN [out |-> "raise", evs |-> <<>>, dest |-> "none", rest |-> rest1,
            endpoint |-> <<>>]
    ELSE IF Len(port_bytes) # 2
      THEN [out |-> "raise", evs |-> <<>>, dest |-> "none", rest |-> rest3,
            endpoint |-> <<>>]
    ELSE IF ~conn
      THEN [out |-> "raise", evs |-> <<"connect_failed">>, dest |-> "created",
            rest |-> rest3, endpoint |-> <<dest_addr, unpack_port(port_bytes)>>]
    ELSE [out |-> "socket", evs |-> <<"connect_ok", send_reply(0)>>,
          dest |-> "connected", rest |-> rest3,
          endpoint |-> <<dest_addr, unpack_port(port_bytes)>>]

\* The try block of handle_request, lines 145-174, on the bytes buf: jh
\* says how much has arrived at recv(4).  struct.unpack("!BBBB") raises
\* unless it is given exactly 4 bytes.
request_bytes_try(buf, jh, ja, jb, jp, conn) ==
  LET header == recv(buf, 4, jh)
      rest == Drop(buf, Len(header)) IN
    IF Len(header) # 4
      THEN [out |-> "raise", evs |-> <<>>, dest |-> "none", rest |-> rest,
            endpoint |-> <<>>]
    ELSE IF header[1] # SOCKS_VERSION \/ header[2] # 1
      THEN [out |-> "none", evs |-> <<send_reply(5)>>, dest |-> "none",
            rest |-> rest, endpoint |-> <<>>]
    ELSE IF header[4] \notin {1, 3}
      THEN [out |-> "none", evs |-> <<send_reply(8)>>, dest |-> "none",
            rest |-> rest, endpoint |-> <<>>]
    ELSE request_connect(rest, header[4], ja, jb, jp, conn)

\* The except clause of handle_request, lines 176-179, with a client that
\* takes the reply
request_bytes(buf, jh, ja, jb, jp, conn) ==
  LET t == request_bytes_try(buf, jh, ja, jb, jp, conn) IN
    IF t.out # "raise" THEN t
    ELSE [t EXCEPT !.out = "none", !.evs = @ \o <<send_reply(1)>>]

\* run, lines 102-104, on the bytes of the wire
handle_request_bytes(s) ==
  /\ pc[s] = "request"
  /\ \E jh \in Arrivals, ja \in Arrivals, jb \in Arrivals, jp \in Arrivals,
        conn \in BOOLEAN :
       LET r == request_bytes(wire[s], jh, ja, jb, jp, conn) IN
         /\ wire' = [wire EXCEPT ![s] = r.rest]
         /\ ev' = [ev EXCEPT ![s] = @ \o r.evs]
         /\ dest_socket' = [dest_socket EXCEPT ![s] = r.dest]
         /\ dest_endpoint' = [dest_endpoint EXCEPT ![s] = r.endpoint]
         /\ pc' = [pc EXCEPT ![s] = IF r.out = "socket" THEN "log_start"
                                                       ELSE "finally"]
  /\ UNCHANGED <<backlog, session_id, client_socket, readable, bytes_sent,
                 bytes_received, toDest, toClient, cause, endRec, db,
                 client_sent, net>>

\* one client connects and sends a greeting and a request
InitWire ==
  /\ backlog = 1
  /\ pc = [s \in Sessions |-> "idle"]
  /\ session_id = [s \in Sessions |-> 0]
  /\ client_socket = [s \in Sessions |-> "none"]
  /\ dest_socket = [s \in Sessions |-> "none"]
  /\ ev = [s \in Sessions |-> <<>>]
  /\ readable = [s \in Sessions |-> <<>>]
  /\ bytes_sent = [s \in Sessions |-> 0]
  /\ bytes_received = [s \in Sessions |-> 0]
  /\ toDest = [s \in Sessions |-> 0]
  /\ toClient = [s \in Sessions |-> 0]
  /\ cause = [s \in Sessions |-> "none"]
  /\ endRec = [s \in Sessions |-> <<>>]
  /\ db = [u \in Uuids |-> "absent"]
  /\ dest_endpoint = [s \in Sessions |-> <<>>]
  /\ net = [s \in Sessions |-> NoNet]
  /\ \E g \in ClientGreetings, r \in ClientRequests :
       /\ client_sent = [s \in Sessions |->
            IF s = 1 THEN [greeting |-> g, request |-> r] ELSE NoInput]
       /\ wire = [s \in Sessions |->
            IF s = 1 THEN encode_greeting(g) \o encode_request(r) ELSE <<>>]

NextWire ==
  \E s \in Sessions :
    \/ accept(s)
    \/ handle_greeting_bytes(s)
    \/ handle_request_bytes(s)
    \/ run_except(s)
    \/ run_finally(s)

SpecWire == InitWire /\ [][NextWire]_vars

\* ------------------------------------------------- two concurrent sessions
\* main with two clients connecting: each gets its own ProxyThread
InitTwo ==
  /\ backlog = 2
  /\ pc = [s \in Sessions |-> "idle"]
  /\ session_id = [s \in Sessions |-> 0]
  /\ client_socket = [s \in Sessions |-> "none"]
  /\ dest_socket = [s \in Sessions |-> "none"]
  /\ ev = [s \in Sessions |-> <<>>]
  /\ readable = [s \in Sessions |-> <<>>]
  /\ bytes_sent = [s \in Sessions |-> 0]
  /\ bytes_received = [s \in Sessions |-> 0]
  /\ toDest = [s \in Sessions |-> 0]
  /\ toClient = [s \in Sessions |-> 0]
  /\ cause = [s \in Sessions |-> "none"]
  /\ endRec = [s \in Sessions |-> <<>>]
  /\ db = [u \in Uuids |-> "absent"]
  /\ wire = [s \in Sessions |-> <<>>]
  /\ client_sent = [s \in Sessions |-> NoInput]
  /\ dest_endpoint = [s \in Sessions |-> <<>>]
  /\ net = [s \in Sessions |-> NoNet]

SpecTwo == InitTwo /\ [][Next]_vars

\* ------------------------------------------- the relay, byte by byte
\* relay_data with the bytes in the socket buffers.  A recv returns what is
\* in the buffer, at most BUFFER_SIZE bytes; sendall returns when the
\* peer's buffer has taken the whole chunk and blocks while it is full.
\* No socket operation raises here.  The client reads and writes whenever
\* it can; the destination does the same ("duplex") or is a program that
\* writes its whole response before it reads ("reply_first").
DestKinds == {"duplex", "reply_first"}
ClientStream == [i \in 1..StreamLen |-> i]
DestStream == [i \in 1..StreamLen |-> 100 + i]
Relaying(s) == pc[s] \in {"select", "recv", "sendall"}
\* the sockets select reports: those with bytes to read or at end of stream
Ready(n) ==
  (IF n.c2p # <<>> \/ n.client_shut THEN <<"client">> ELSE <<>>)
    \o (IF n.d2p # <<>> \/ n.dest_shut THEN <<"dest">> ELSE <<>>)

FlowUnchanged ==
  UNCHANGED <<backlog, session_id, endRec, db, wire, client_sent, dest_endpoint>>

\* line 196: select blocks until a socket is readable
flow_select(s) ==
  /\ pc[s] = "select"
  /\ Ready(net[s]) # <<>>
  /\ readable' = [readable EXCEPT ![s] = Ready(net[s])]
  /\ pc' = [pc EXCEPT ![s] = "recv"]
  /\ FlowUnchanged
  /\ UNCHANGED <<client_socket, dest_socket, ev, bytes_sent, bytes_received,
                 toDest, toClient, cause, net>>

\* lines 199-201: recv(BUFFER_SIZE) on the next readable socket; an empty
\* result leaves the loop, a chunk goes to sendall
flow_recv(s) ==
  /\ pc[s] = "recv"
  /\ readable[s] # <<>>
  /\ LET sock == Head(readable[s])
         n == net[s]
         buf == IF sock = "client" THEN n.c2p ELSE n.d2p IN
       \E j \in 1..MaxChunk :
         LET data == recv(buf, Min(MaxChunk, BUFFER_SIZE), j) IN
           IF data = <<>>
             THEN /\ relay_exit(s, "eof", "none")
                  /\ UNCHANGED net
           ELSE /\ net' = [net EXCEPT ![s] =
                     IF sock = "client"
                       THEN [n EXCEPT !.c2p = Drop(buf, Len(data)),
                                      !.read_client = @ \o data,
                                      !.data = data, !.unsent = data]
                       ELSE [n EXCEPT !.d2p = Drop(buf, Len(data)),
                                      !.read_dest = @ \o data,
                                      !.data = data, !.unsent = data]]
                /\ pc' = [pc EXCEPT ![s] = "sendall"]
                /\ UNCHANGED <<client_socket, dest_socket, ev, readable,
                               bytes_sent, bytes_received, toDest, toClient,
                               cause>>
  /\ FlowUnchanged

\* lines 203-208: sendall hands the chunk to the peer's socket as its
\* buffer takes it, and returns when nothing is left; then the counter is
\* updated and the for loop goes on
flow_sendall(s) ==
  /\ pc[s] = "sendall"
  /\ LET sock == Head(readable[s])
         n == net[s]
         out == IF Peer(sock) = "dest" THEN n.p2d ELSE n.p2c
         k == Min(SockBuf - Len(out), Len(n.unsent))
         rest == Drop(n.unsent, k) IN
       /\ k > 0
       /\ net' = [net EXCEPT ![s] =
            IF Peer(sock) = "dest"
              THEN [n EXCEPT !.p2d = @ \o SubSeq(n.unsent, 1, k), !.unsent = rest,
                             !.data = IF rest = <<>> THEN <<>> ELSE @]
              ELSE [n EXCEPT !.p2c = @ \o SubSeq(n.unsent, 1, k), !.unsent = rest,
                             !.data = IF rest = <<>> THEN <<>> ELSE @]]
       /\ IF rest = <<>>
            THEN relay_forward(s, sock, Len(n.data))
            ELSE UNCHANGED <<client_socket, dest_socket, ev, readable, pc,
                             bytes_sent, bytes_received, toDest, toClient, cause>>
  /\ FlowUnchanged

\* the peers of a session act while the proxy holds both sockets open
PeersUnchanged ==
  UNCHANGED <<backlog, pc, session_id, client_socket, dest_socket, ev, readable,
              bytes_sent, bytes_received, toDest, toClient, cause, endRec, db,
              wire, client_sent, dest_endpoint>>
Connected(s) == pc[s] \in {"log_start", "select", "recv", "sendall"}

\* the client writes its next byte, if its socket takes it
client_send(s) ==
  /\ Connected(s)
  /\ net[s].client_todo # <<>> /\ Len(net[s].c2p) < SockBuf
  /\ net' = [net EXCEPT ![s].c2p = Append(@, Head(net[s].client_todo)),
                        ![s].client_todo = Tail(@)]
  /\ PeersUnchanged

\* the client reads what the proxy wrote to it
client_recv(s) ==
  /\ Connected(s)
  /\ net[s].p2c # <<>>
  /\ net' = [net EXCEPT ![s].client_got = @ \o net[s].p2c, ![s].p2c = <<>>]
  /\ PeersUnchanged

\* the client has sent everything and closes its sending side
client_shutdown(s) ==
  /\ Connected(s)
  /\ net[s].client_todo = <<>> /\ ~net[s].client_shut
  /\ net' = [net EXCEPT ![s].client_shut = TRUE]
  /\ PeersUnchanged

\* the destination writes its next byte, if its socket takes it
dest_send(s) ==
  /\ Connected(s)
  /\ net[s].dest_todo # <<>> /\ Len(net[s].d2p) < SockBuf
  /\ net' = [net EXCEPT ![s].d2p = Append(@, Head(net[s].dest_todo)),
                        ![s].dest_todo = Tail(@)]
  /\ PeersUnchanged

\* the destination reads what the proxy wrote to it; a reply_first
\* destination does so once its response is written
dest_recv(s) ==
  /\ Connected(s)
  /\ net[s].p2d # <<>>
  /\ net[s].dest_kind = "duplex" \/ net[s].dest_todo = <<>>
  /\ net' = [net EXCEPT ![s].dest_got = @ \o net[s].p2d, ![s].p2d = <<>>]
  /\ PeersUnchanged

\* the destination has sent everything and closes its sending side
dest_shutdown(s) ==
  /\ Connected(s)
  /\ net[s].dest_todo = <<>> /\ ~net[s].dest_shut
  /\ net' = [net EXCEPT ![s].dest_shut = TRUE]
  /\ PeersUnchanged

\* one client connects; it and the destination it asks for have a stream
\* to send
InitFlow ==
  /\ backlog = 1
  /\ pc = [s \in Sessions |-> "idle"]
  /\ session_id = [s \in Sessions |-> 0]
  /\ client_socket = [s \in Sessions |-> "none"]
  /\ dest_socket = [s \in Sessions |-> "none"]
  /\ ev = [s \in Sessions |-> <<>>]
  /\ readable = [s \in Sessions |-> <<>>]
  /\ bytes_sent = [s \in Sessions |-> 0]
  /\ bytes_received = [s \in Sessions |-> 0]
  /\ toDest = [s \in Sessions |-> 0]
  /\ toClient = [s \in Sessions |-> 0]
  /\ cause = [s \in Sessions |-> "none"]
  /\ endRec = [s \in Sessions |-> <<>>]
  /\ db = [u \in Uuids |-> "absent"]
  /\ wire = [s \in Sessions |-> <<>>]
  /\ client_sent = [s \in Sessions |-> NoInput]
  /\ dest_endpoint = [s \in Sessions |-> <<>>]
  /\ \E kind \in DestKinds :
       net = [s \in Sessions |->
                IF s = 1 THEN [NoNet EXCEPT !.client_todo = ClientStream,
                                            !.dest_todo = DestStream,
                                            !.dest_kind = kind]
                         ELSE NoNet]

\* what the proxy does with session s
FlowProxy(s) ==
  \/ accept(s)
  \/ handle_greeting(s)
  \/ handle_request(s)
  \/ log_start(s)
  \/ flow_select(s)
  \/ flow_recv(s)
  \/ flow_sendall(s)
  \/ log_end(s)
  \/ run_except(s)
  \/ run_finally(s)

\* what the two peers of session s do
FlowPeers(s) ==
  \/ client_send(s)
  \/ client_recv(s)
  \/ client_shutdown(s)
  \/ dest_send(s)
  \/ dest_recv(s)
  \/ dest_shutdown(s)

NextFlow == \E s \in Sessions : FlowProxy(s) \/ FlowPeers(s)

SpecFlow == InitFlow /\ [][NextFlow]_vars

\* =============================================================== claims
\* handle_request returned the destination socket: the session reached the
\* relay phase (run, lines 102-110)
EnteredRelay(s) == Has(ev[s], "reply0")
\* relay_data left its loop because a recv or a sendall raised
RelayFailed(s) == cause[s] \in {"reset", "other"}
Relayed(s) == toDest[s] + toClient[s]
Replies(s) == Count(ev[s], "reply0") + Count(ev[s], "reply1")
                + Count(ev[s], "reply5") + Count(ev[s], "reply8")

\* C1: a session whose relay was ended by a failing read or write
\* (connection reset included) finishes with exactly one end record, of
\* status "error" and carrying an error message.
C1_RelayFailureEndsInError ==
  \A s \in Sessions :
    (pc[s] = "done" /\ RelayFailed(s)) =>
      /\ Len(endRec[s]) = 1
      /\ endRec[s][1].status = "error"
      /\ endRec[s][1].message

\* C2: when the relay ends with an I/O error after some bytes were copied,
\* the bytes_sent and bytes_received given to db_log_end are the numbers of
\* bytes copied in each direction up to the failure.
C2_PartialCountsPreserved ==
  \A s \in Sessions :
    (pc[s] = "done" /\ RelayFailed(s) /\ Relayed(s) > 0) =>
      /\ Len(endRec[s]) = 1
      /\ endRec[s][1].sent = toDest[s]
      /\ endRec[s][1].received = toClient[s]

\* C3: a session that terminates without having entered the relay phase
\* has called neither db_log_start nor db_log_end.
C3_NoSinkCallBeforeRelay ==
  \A s \in Sessions :
    (pc[s] = "done" /\ ~EnteredRelay(s)) =>
      /\ ~Has(ev[s], "start")
      /\ ~Has(ev[s], "end")

\* C4: when a session has terminated, its client socket was closed exactly
\* once and the destination socket it opened, if any, was closed exactly
\* once: none is left open.
C4_SocketsClosedOnce ==
  \A s \in Sessions :
    pc[s] = "done" =>
      /\ Count(ev[s], "close_client") = 1
      /\ dest_socket[s] \in {"none", "closed"}
      /\ Count(ev[s], "close_dest") = (IF dest_socket[s] = "closed" THEN 1 ELSE 0)

\* C5: a session that entered the relay phase calls db_log_start exactly
\* once, before any byte is relayed, and db_log_end exactly once, after
\* relay_data has finished and after the start; no second call of either.
C5_StartOnceEndOnce ==
  \A s \in Sessions :
    EnteredRelay(s) =>
      /\ Count(ev[s], "start") <= 1
      /\ Count(ev[s], "end") <= 1
      /\ pc[s] # "log_start" => Count(ev[s], "start") = 1
      /\ Relayed(s) > 0 => Has(ev[s], "start")
      /\ Has(ev[s], "end") =>
           /\ pc[s] \in {"finally", "done"}
           /\ cause[s] # "none"
           /\ Pos(ev[s], "start") < Pos(ev[s], "close_dest")
           /\ Pos(ev[s], "close_dest") < Pos(ev[s], "end")
      /\ pc[s] = "done" => Count(ev[s], "end") = 1

C5_Witness ==
  \E s \in Sessions :
    /\ pc[s] = "done"
    /\ toDest[s] > 0 /\ toClient[s] > 0
    /\ Count(ev[s], "start") = 1 /\ Count(ev[s], "end") = 1

\* C6 as stated: a session that had a valid CONNECT request and whose
\* outbound connection succeeded has written exactly one SOCKS reply to its
\* client, with REP = 0.
C6_ExactlyOneSuccessReply ==
  \A s \in Sessions :
    (Has(ev[s], "connect_ok") /\ pc[s] \in {"log_start", "except", "finally", "done"}) =>
      /\ Replies(s) = 1
      /\ Count(ev[s], "reply0") = 1

\* C6, amended: once the outbound connection of a valid CONNECT request
\* succeeded, a reply with REP = 0 whose write succeeds is the only reply
\* the client is sent, and it is written after the connect and before the
\* start record and any relayed byte; the reply is missing only when its
\* sendall raised, and then the session never relays.
C6_OneSuccessReply ==
  \A s \in Sessions :
    Has(ev[s], "connect_ok") =>
      /\ Has(ev[s], "reply0") =>
           /\ Replies(s) = 1
           /\ Pos(ev[s], "connect_ok") < Pos(ev[s], "reply0")
      /\ (Relayed(s) > 0 \/ Has(ev[s], "start")) => Count(ev[s], "reply0") = 1
      /\ Has(ev[s], "start") => Pos(ev[s], "reply0") < Pos(ev[s], "start")
      /\ ~Has(ev[s], "reply0") =>
           /\ Has(ev[s], "reply_failed")
           /\ Relayed(s) = 0
           /\ ~Has(ev[s], "start")
           /\ pc[s] \in {"except", "finally", "done"}
      /\ pc[s] \in {"select", "recv"} =>
           /\ Count(ev[s], "reply0") = 1
           /\ dest_socket[s] = "connected"

C6_Witness ==
  \E s \in Sessions :
    /\ Has(ev[s], "connect_ok")
    /\ Count(ev[s], "reply0") = 1
    /\ pc[s] = "recv"
    /\ toDest[s] > 0 /\ toClient[s] > 0

C8_CleanEofEndsClosed ==
  \A s \in Sessions :
    (cause[s] = "eof" /\ pc[s] \in {"finally", "done"}) =>
      endRec[s] = << [sent |-> toDest[s], received |-> toClient[s],
                      status |-> "closed", message |-> FALSE] >>

C8_Witness ==
  \E s \in Sessions :
    /\ cause[s] = "eof" /\ pc[s] = "done"
    /\ toDest[s] = 1 /\ toClient[s] = 2
    /\ Len(endRec[s]) = 1 /\ endRec[s][1].status = "closed"

\* C9: whenever relay_data has left its loop, by end of stream, connection
\* reset or any other exception, the destination socket is closed, once,
\* before run goes on; relay_data leaves the client socket alone, which is
\* closed only by the finally clause of run.
C9_RelayClosesDestOnly ==
  \A s \in Sessions :
    /\ cause[s] # "none" =>
         /\ dest_socket[s] = "closed"
         /\ Count(ev[s], "close_dest") = 1
    /\ pc[s] \in {"select", "recv", "log_end", "except"} =>
         /\ client_socket[s] # "closed"
         /\ ~Has(ev[s], "close_client")
    /\ Has(ev[s], "close_client") => pc[s] = "done"

C9_Witness ==
  \E s \in Sessions :
    /\ cause[s] = "other" /\ pc[s] = "except"
    /\ dest_socket[s] = "closed"
    /\ client_socket[s] = "open"

\* what the client of session s can observe: the replies and relayed bytes
\* written to it, the bytes written to its destination, the sockets
ClientView(s) ==
  <<client_socket[s], dest_socket[s], toDest[s], toClient[s],
    Count(ev[s], "method_reply"), Count(ev[s], "reply0"), Count(ev[s], "reply1"),
    Count(ev[s], "reply5"), Count(ev[s], "reply8"),
    Count(ev[s], "close_dest"), Count(ev[s], "close_client")>>

\* C10: a logging step changes nothing the client observes and run goes on
\* from it to the same place whether the database call succeeded, found the
\* database unreachable or failed in its statement.
C10_SinkFailureInvisible ==
  [][\A s \in Sessions :
       (pc[s] \in {"log_start", "log_end", "except"} /\ pc'[s] # pc[s]) =>
         /\ ClientView(s)' = ClientView(s)
         /\ pc'[s] = (IF pc[s] = "log_start" THEN "select" ELSE "finally")]_vars

C10_Witness ==
  \E s \in Sessions :
    /\ pc[s] = "done"
    /\ Count(ev[s], "start") = 1 /\ Count(ev[s], "end") = 1
    /\ db[session_id[s]] = "absent"
    /\ toDest[s] > 0 /\ toClient[s] > 0
    /\ cause[s] = "eof"

\* --------------------------------- handshake claims on the bytes of the wire
\* the greeting and the request the client of session s sent
SentGreeting(s) == client_sent[s].greeting
SentRequest(s) == client_sent[s].request
\* the handshake of session s is over
HandshakeOver(s) == pc[s] \in {"log_start", "except", "finally", "done"}
ConnectAttempted(s) == Has(ev[s], "connect_ok") \/ Has(ev[s], "connect_failed")

\* C11: a greeting whose version byte is not 5 ends the session with zero
\* reply bytes written: neither the method reply nor a SOCKS reply, no request
\* read (at most the 2 greeting bytes leave the wire, handle_request never
\* runs), no outbound connection, and the client socket closed at the end.
C11_BadVersionNoReply ==
  \A s \in Sessions :
    (SentGreeting(s).ver \notin {0, SOCKS_VERSION}) =>
      /\ ~Has(ev[s], "method_reply")
      /\ Replies(s) = 0
      /\ pc[s] \notin {"request", "log_start"}
      /\ Len(wire[s]) >= Len(encode_request(SentRequest(s)))
                         + Len(SentGreeting(s).methods)
      /\ ~ConnectAttempted(s)
      /\ dest_socket[s] = "none" /\ dest_endpoint[s] = <<>>
      /\ (pc[s] = "done" => client_socket[s] = "closed")

C11_Witness ==
  \E s \in Sessions :
    /\ SentGreeting(s).ver = 4
    /\ pc[s] = "done" /\ client_socket[s] = "closed"
    /\ Len(wire[s]) = Len(encode_request(SentRequest(s)))
                      + Len(SentGreeting(s).methods)

\* C12: a request whose command is not CONNECT yields a reply with REP = 5
\* and nothing else: no outbound connection, no relay.
C12_BadCommandReply5 ==
  \A s \in Sessions :
    (Has(ev[s], "method_reply") /\ HandshakeOver(s) /\ SentRequest(s).cmd # 1) =>
      /\ Has(ev[s], "reply5") /\ Replies(s) = 1
      /\ ~ConnectAttempted(s)
      /\ pc[s] # "log_start"

\* C13: a well-formed CONNECT request with an address type other than 1 and
\* 3 yields a reply with REP = 8 and nothing else: no outbound connection,
\* no relay.
C13_BadAddressTypeReply8 ==
  \A s \in Sessions :
    (/\ Has(ev[s], "method_reply") /\ HandshakeOver(s)
     /\ SentRequest(s).ver = SOCKS_VERSION /\ SentRequest(s).cmd = 1
     /\ SentRequest(s).atyp \notin {1, 3}) =>
      /\ Has(ev[s], "reply8") /\ Replies(s) = 1
      /\ ~ConnectAttempted(s)
      /\ pc[s] # "log_start"

\* C16: for every greeting with version 5, whatever the methods, the session
\* writes the method reply (5, 0) exactly once and goes on to the request.
C16_Version5MethodReply ==
  \A s \in Sessions :
    (SentGreeting(s).ver = SOCKS_VERSION /\ pc[s] \notin {"idle", "greeting"}) =>
      Count(ev[s], "method_reply") = 1

\* C17: however the stream is split across reads, the greeting consumes
\* exactly its 2 + n bytes, so that the request is parsed from its first
\* byte, and the address and the port are read in full, so that the
\* destination connected to is the one the client named.
C17_ExactConsumption ==
  \A s \in Sessions :
    /\ (pc[s] = "request" => wire[s] = encode_request(SentRequest(s)))
    /\ (SentGreeting(s).ver = SOCKS_VERSION /\ pc[s] \notin {"idle", "greeting"}
          => Has(ev[s], "method_reply"))
    /\ (dest_endpoint[s] # <<>> => dest_endpoint[s] = EndpointOf(SentRequest(s)))

\* ------------------------------------------------ outbound connection fails
\* C14, as stated: when the outbound connection fails the client receives a
\* reply with REP = 1 and none with REP = 0, the relay never starts and the
\* start operation of the sink is not invoked.
C14_ConnectFailureReply1 ==
  \A s \in Sessions :
    Has(ev[s], "connect_failed") =>
      /\ Has(ev[s], "reply1") /\ ~Has(ev[s], "reply0")
      /\ Relayed(s) = 0 /\ pc[s] \notin {"log_start", "select", "recv", "log_end"}
      /\ ~Has(ev[s], "start")

\* C14, amended: when the outbound connection fails, REP = 1 is the one
\* reply written unless its write raises (then no reply is written and the
\* exception ends the session); in both cases no REP = 0, 5 or 8, no relay
\* and no start operation.
C14_ConnectFailureNoRelay ==
  \A s \in Sessions :
    Has(ev[s], "connect_failed") =>
      /\ Has(ev[s], "reply1") = ~Has(ev[s], "reply_failed")
      /\ Replies(s) = Count(ev[s], "reply1") /\ Replies(s) <= 1
      /\ (Has(ev[s], "reply1") => pc[s] \in {"finally", "done"})
      /\ (Has(ev[s], "reply_failed") => pc[s] \in {"except", "finally", "done"})
      /\ ~Has(ev[s], "connect_ok")
      /\ Relayed(s) = 0 /\ bytes_sent[s] = 0 /\ bytes_received[s] = 0
      /\ pc[s] \notin {"log_start", "select", "recv", "log_end"}
      /\ ~Has(ev[s], "start")

C14_Witness ==
  \E s \in Sessions :
    /\ Has(ev[s], "connect_failed") /\ Has(ev[s], "reply1")
    /\ pc[s] = "done" /\ ~Has(ev[s], "start")

\* ----------------------------------------------------- concurrent sessions
\* everything session s owns: its position, sockets, counters, replies and
\* other events, and its row in the database
SessionState(s) ==
  <<pc[s], session_id[s], client_socket[s], dest_socket[s], ev[s], readable[s],
    bytes_sent[s], bytes_received[s], toDest[s], toClient[s], cause[s],
    endRec[s], IF session_id[s] = 0 THEN "absent" ELSE db[session_id[s]]>>

\* C15: two concurrent sessions have distinct session ids, and every step
\* is the step of one session and leaves all that the other session owns
\* (bytes forwarded in each direction, counters, replies, sink calls and
\* its database row) as it was.
C15_SessionsIndependent ==
  /\ [](\A s, t \in Sessions :
          (s # t /\ session_id[s] # 0 /\ session_id[t] # 0)
            => session_id[s] # session_id[t])
  /\ [][\E s \in Sessions :
          \A t \in Sessions \ {s} : SessionState(t)' = SessionState(t)]_vars

C15_Witness ==
  \E s, t \in Sessions :
    /\ s # t /\ session_id[s] # session_id[t]
    /\ pc[s] \in {"select", "recv"} /\ pc[t] \in {"select", "recv"}
    /\ toDest[s] > 0 /\ toDest[t] = 0 /\ toClient[t] > 0
    /\ db[session_id[s]] = "active" /\ db[session_id[t]] = "absent"

\* ------------------------------------------------------------------ phases
\* The phase of spec section 4.2 a session is in, by where run stands:
\* 0 INIT (greeting not answered), 1 METHOD_SELECTED (handle_request to
\* come), 2 REQUESTED (handle_request returned the connected socket),
\* 3 RELAYING (inside relay_data's loop), 4 CLOSED (relay_data returned, or
\* run is in its except or finally clause, or over).
PhaseOf(s) ==
  CASE pc[s] \in {"idle", "greeting"} -> 0
    [] pc[s] = "request" -> 1
    [] pc[s] = "log_start" -> 2
    [] pc[s] \in {"select", "recv"} -> 3
    [] OTHER -> 4
\* all that session s wrote, or tried to write, to its two sockets
Writes(s) ==
  <<Count(ev[s], "method_reply"), Replies(s), Count(ev[s], "reply_failed"),
    toDest[s], toClient[s], bytes_sent[s], bytes_received[s]>>

\* C19: the phase of a session only moves to the next phase or jumps to
\* CLOSED, never back; RELAYING is entered only after a successful connect
\* followed by a written REP = 0; a connect is attempted only after the
\* greeting reply was written; once CLOSED the session writes to no socket
\* and takes no relay step.
C19_PhasesForwardOnly ==
  /\ [][\A s \in Sessions :
          /\ PhaseOf(s)' \in {PhaseOf(s), PhaseOf(s) + 1, 4}
          /\ PhaseOf(s)' >= PhaseOf(s)
          /\ (PhaseOf(s) = 4 =>
                /\ Writes(s)' = Writes(s)
                /\ pc'[s] \notin {"select", "recv"})]_vars
  /\ [](\A s \in Sessions :
          /\ (PhaseOf(s) = 3 =>
                /\ Has(ev[s], "connect_ok") /\ Has(ev[s], "reply0")
                /\ Pos(ev[s], "connect_ok") < Pos(ev[s], "reply0")
                /\ dest_socket[s] = "connected")
          /\ (ConnectAttempted(s) =>
                /\ Has(ev[s], "method_reply")
                /\ \A i \in 1..Len(ev[s]) :
                     ev[s][i] \in {"connect_ok", "connect_failed"}
                       => Pos(ev[s], "method_reply") < i))

C19_Witness ==
  \E s \in Sessions :
    /\ pc[s] = "done" /\ Has(ev[s], "reply0") /\ Has(ev[s], "end")
    /\ toDest[s] > 0 /\ toClient[s] > 0

\* ------------------------------------------------------ relay, byte by byte
IsPrefix(a, b) == Len(a) <= Len(b) /\ a = SubSeq(b, 1, Len(a))
\* all that the proxy wrote to the destination socket, and to the client
\* socket after the handshake: what the peer took and what still waits
WrittenToDest(s) == net[s].dest_got \o net[s].p2d
WrittenToClient(s) == net[s].client_got \o net[s].p2c

\* C18: during relay neither direction is starved.  Refutable form: while
\* bytes wait to be read on one of the two sockets, the relay is never
\* stuck for good, that is, the proxy or one of the peers can take a step.
C18_NoStarvation ==
  \A s \in Sessions :
    (Relaying(s) /\ (net[s].c2p # <<>> \/ net[s].d2p # <<>>)) =>
      ENABLED (FlowProxy(s) \/ FlowPeers(s))

\* C20: during relay the bytes written to the destination are a prefix of
\* the bytes read from the client, and the bytes written to the client a
\* prefix of the bytes read from the destination; a chunk is written
\* whole before the next read; the only other writes of the session are the
\* method reply and the one REP = 0 reply that precede the relay.
C20_RelayPreservesStreams ==
  \A s \in Sessions :
    /\ IsPrefix(WrittenToDest(s), net[s].read_client)
    /\ IsPrefix(net[s].read_client, ClientStream)
    /\ IsPrefix(WrittenToClient(s), net[s].read_dest)
    /\ IsPrefix(net[s].read_dest, DestStream)
    /\ (pc[s] # "sendall" =>
          /\ WrittenToDest(s) = net[s].read_client
          /\ WrittenToClient(s) = net[s].read_dest
          /\ net[s].unsent = <<>>)
    /\ (pc[s] = "sendall" =>
          /\ net[s].unsent # <<>>
          /\ IF Head(readable[s]) = "client"
               THEN /\ WrittenToDest(s) \o net[s].unsent = net[s].read_client
                    /\ WrittenToClient(s) = net[s].read_dest
               ELSE /\ WrittenToClient(s) \o net[s].unsent = net[s].read_dest
                    /\ WrittenToDest(s) = net[s].read_client)
    /\ (Relaying(s) =>
          /\ Replies(s) = 1 /\ Count(ev[s], "reply0") = 1
          /\ Count(ev[s], "method_reply") = 1 /\ ~Has(ev[s], "reply_failed"))
    /\ bytes_sent[s] = toDest[s] /\ bytes_received[s] = toClient[s]

C20_Witness ==
  \E s \in Sessions :
    /\ pc[s] = "select"
    /\ net[s].dest_got = ClientStream
    /\ net[s].client_got = DestStream
    /\ bytes_sent[s] = StreamLen /\ bytes_received[s] = StreamLen

====
